---- MODULE Spec2Model ----
(***************************************************************************)
(* Model of autodocstring (src/main.py): the per-function loop of main()   *)
(* and the retry/extraction routine generate_docstring().                  *)
(*                                                                         *)
(* A source text is a sequence of lines; a line carries its indentation    *)
(* level, the kind of statement it opens, the function name and (for an    *)
(* expression statement holding a string constant) the string.  The syntax *)
(* tree built by ast.parse gives one node per line, identified by its line *)
(* number (node 0 is the Module); a node's body is the ordered list of its *)
(* direct children.  Statements created by the program itself (the new     *)
(* ast.Expr of line 71) have no line number.                               *)
(***************************************************************************)
EXTENDS Integers, Sequences, FiniteSets, TLC

VARIABLES
    run,            \* number of the current invocation of the tool
    file,           \* content of the file at file_path on disk
    persisted,      \* content of the most recently completed write (ghost)
    src,            \* main: src, the text read at line 54
    body,           \* main: tree, as node -> node.body
    todo,           \* ast.walk: the deque of nodes still to yield
    pc,             \* position of the process in main / generate_docstring
    cur,            \* main: node, the loop variable of line 61
    function_code,  \* main: function_code (line 63)
    tries,          \* generate_docstring: tries
    raw_docstring,  \* generate_docstring: raw_docstring (line 24)
    docstring,      \* main: docstring (line 66)
    updated_src,    \* main: updated_src (line 73)
    exc,            \* the exception in flight / bound to e at line 67
    stdout,         \* messages printed by this invocation
    hist,           \* per node: what happened to it in this invocation (ghost)
    requests,       \* nodes in the order their generation was requested (ghost)
    writes          \* number of completed writes in this invocation (ghost)

vars == <<run, file, persisted, src, body, todo, pc, cur, function_code, tries,
          raw_docstring, docstring, updated_src, exc, stdout, hist, requests,
          writes>>

----------------------------------------------------------------------------
(* Bounds of the model *)

MaxLines == 5       \* longest source text given to the tool
MaxRuns == 2        \* invocations of the tool on the same file
MaxRerunLines == 4  \* longest source text when the tool is run repeatedly
MaxRespLen == 9     \* longest oracle response in the extraction check
MaxPreflightLines == 3  \* longest file content when the start-up is explored

----------------------------------------------------------------------------
(* Strings as Python sees them: 0-based find and slicing *)

Quote == "q"                         \* one double-quote character
Marker == <<Quote, Quote, Quote>>    \* the literal '"""' of lines 26, 29, 33

\* s[a:b]
Slice(s, a, b) == SubSeq(s, a + 1, b)

\* sub occurs in s at 0-based index i
OccursAt(s, sub, i) ==
    /\ i >= 0
    /\ i + Len(sub) <= Len(s)
    /\ Slice(s, i, i + Len(sub)) = sub

\* s.find(sub, start): lowest index >= start where sub occurs, else -1
RECURSIVE Find(_, _, _)
Find(s, sub, start) ==
    IF start + Len(sub) > Len(s) THEN -1
    ELSE IF OccursAt(s, sub, start) THEN start
    ELSE Find(s, sub, start + 1)

\* generate_docstring line 28: docstring_start
DocstringStart_NoSkip(raw) == Find(raw, Marker, 0)
DocstringStart(raw) == Find(raw, Marker, 0) + 3

\* generate_docstring lines 29-32: docstring_end
DocstringEnd(raw) ==
    LET e == Find(raw, Marker, DocstringStart(raw))
    IN  IF e = -1 THEN Len(raw) ELSE e

\* generate_docstring lines 26-35: the value returned when the marker is found
FinalDocstring(raw) ==
    LET e == Find(raw, Marker, DocstringStart(raw))
        padded == IF e = -1 THEN raw \o Marker ELSE raw
    IN  Slice(padded, DocstringStart(raw), DocstringEnd(raw))

\* generate_docstring line 27: docstring != -1
HasMarker(raw) == Find(raw, Marker, 0) # -1

----------------------------------------------------------------------------
(* Name resolution inside generate_docstring (lines 37 and 39 read node) *)

\* names bound at module level of main.py
ModuleGlobals ==
    {"os", "ast", "ArgumentParser", "load_dotenv", "genai", "NotFound",
     "InternalServerError", "check_env", "generate_docstring", "main",
     "args", "parsed_args", "file_path", "model"}

\* names bound in the body of generate_docstring
GenerateDocstringLocals ==
    {"function_code", "model", "tries", "prompt", "response", "raw_docstring",
     "docstring", "docstring_start", "docstring_end", "final_docstring"}

\* a name read in generate_docstring resolves (LEGB, no enclosing function)
Resolves(name) == name \in GenerateDocstringLocals \cup ModuleGlobals

----------------------------------------------------------------------------
(* Source texts *)

FunctionKinds == {"FunctionDef", "AsyncFunctionDef"}
BlockKinds == FunctionKinds \cup {"ClassDef"}

NoText == << >>

SourceLine(indent, kind, name) ==
    [indent |-> indent, kind |-> kind, name |-> name, value |-> NoText, fmt |-> "orig"]

\* first lines of the statements a user's file is made of: def f(...):,
\* async def g(...):, class C:, and a simple statement
SourceLines(indent) ==
    {SourceLine(indent, "FunctionDef", "f"),
     SourceLine(indent, "AsyncFunctionDef", "g"),
     SourceLine(indent, "ClassDef", "C"),
     SourceLine(indent, "Stmt", "")}

\* l may follow the last line of the non-empty text t: a block opener is
\* followed by its indented body, any other statement is not
MayFollow(t, l) ==
    LET p == t[Len(t)]
    IN  IF p.kind \in BlockKinds THEN l.indent = p.indent + 1
        ELSE l.indent <= p.indent

\* texts of exactly n lines in which every block opened so far is well indented
RECURSIVE Prefixes(_)
Prefixes(n) ==
    IF n = 1 THEN {<<l>> : l \in SourceLines(0)}
    ELSE UNION {{Append(t, l) :
                    l \in {x \in UNION {SourceLines(i) : i \in 0..(n - 1)} : MayFollow(t, x)}} :
                t \in Prefixes(n - 1)}

\* the texts ast.parse accepts (line 56): every block has a body
ValidSources(maxlen) ==
    UNION {{t \in Prefixes(n) : t[n].kind \notin BlockKinds} : n \in 1..maxlen}

----------------------------------------------------------------------------
(* ast.parse, ast.get_source_segment, ast.unparse, ast.walk *)

ModuleIndent == 0 - 1

IndentOf(text, n) == IF n = 0 THEN ModuleIndent ELSE text[n].indent

\* last line of the block opened at line n (n itself for a simple statement)
BlockEnd(text, n) ==
    LET later == {j \in (n + 1)..Len(text) :
                     \A i \in (n + 1)..j : text[i].indent > IndentOf(text, n)}
    IN  IF later = {} THEN n
        ELSE CHOOSE j \in later : \A i \in later : i <= j

\* a statement found by the parser / a statement built by the program
NodeRef(n) == [t |-> "node", id |-> n, text |-> NoText]
NewExpr(s) == [t |-> "new", id |-> 0, text |-> s]

\* increasing enumeration of a finite set of line numbers
RECURSIVE Sorted(_)
Sorted(S) ==
    IF S = {} THEN << >>
    ELSE LET m == CHOOSE x \in S : \A y \in S : x <= y
         IN  <<NodeRef(m)>> \o Sorted(S \ {m})

\* ast.parse(src): node -> body
Parse(text) ==
    [n \in 0..Len(text) |->
        Sorted({j \in (n + 1)..BlockEnd(text, n) :
                   text[j].indent = IndentOf(text, n) + 1})]

\* ast.get_source_segment(src, node)
SourceSegment_Rewritten(text, n) == SubSeq(file, n, BlockEnd(text, n))
SourceSegment(text, n) == SubSeq(text, n, BlockEnd(text, n))

\* ast.unparse: the statements elems written at the given indentation
RECURSIVE UnparseBody(_, _, _, _)
UnparseBody(text, b, elems, indent) ==
    IF elems = << >> THEN << >>
    ELSE LET e == Head(elems)
             first ==
                 IF e.t = "new"
                 THEN <<[indent |-> indent, kind |-> "Expr", name |-> "",
                         value |-> e.text, fmt |-> "canon"]>>
                 ELSE <<[text[e.id] EXCEPT !.indent = indent, !.fmt = "canon"]>>
                      \o UnparseBody(text, b, b[e.id], indent + 1)
         IN  first \o UnparseBody(text, b, Tail(elems), indent)

\* ast.unparse(tree)
Unparse(text, b) == UnparseBody(text, b, b[0], 0)

\* the node's class, as isinstance sees it (line 62)
KindOf(text, e) ==
    IF e.t = "new" THEN "Expr"
    ELSE IF e.id = 0 THEN "Module"
    ELSE text[e.id].kind

\* ast.iter_child_nodes(node)
ChildNodes(b, e) == IF e.t = "new" THEN << >> ELSE b[e.id]

\* ast.walk: todo.extend(iter_child_nodes(node)) after todo.popleft()
Extend_Front(queue, children) == children \o queue
Extend_Twice(queue, children) == queue \o children \o children
Extend(queue, children) == queue \o children

----------------------------------------------------------------------------
(* The oracle: model.generate_content(...).text *)

\* replies used when whole runs are explored: one without the marker and one
\* with text around an opening and a closing marker
Responses ==
    {<<"a">>,
     <<"a", Quote, Quote, Quote, "d", Quote, Quote, Quote, "b">>}

\* every reply of at most n characters over the alphabet {quote, a}
RECURSIVE TextsUpTo(_)
TextsUpTo(n) ==
    IF n = 0 THEN {<< >>}
    ELSE LET shorter == TextsUpTo(n - 1)
         IN  shorter \cup {Append(t, c) : t \in {x \in shorter : Len(x) = n - 1},
                                          c \in {Quote, "a"}}

----------------------------------------------------------------------------
(* State of one invocation *)

DefaultTries == 2        \* generate_docstring: tries = 2

NoExc == [type |-> "none", name |-> ""]

NoHist == [calls |-> 0, nomark |-> 0, err |-> FALSE, result |-> "none"]

NameOf(text, n) == IF n = 0 THEN "" ELSE text[n].name

IsFunction(text, e) == KindOf(text, e) \in FunctionKinds

\* line numbers of the function definitions of a text, in increasing order
FunctionsOf(text) == {n \in 1..Len(text) : text[n].kind \in FunctionKinds}

\* main lines 53-61: read the file, parse it, start the walk
Start(text, r) ==
    /\ run = r
    /\ src = text
    /\ body = Parse(text)
    /\ todo = <<NodeRef(0)>>
    /\ pc = "walk"
    /\ cur = 0
    /\ function_code = NoText
    /\ tries = DefaultTries
    /\ raw_docstring = NoText
    /\ docstring = NoText
    /\ updated_src = NoText
    /\ exc = NoExc
    /\ stdout = << >>
    /\ hist = [n \in 0..Len(text) |-> NoHist]
    /\ requests = << >>
    /\ writes = 0

Init ==
    \E text \in ValidSources(MaxLines) :
        /\ file = text
        /\ persisted = text
        /\ Start(text, 1)

----------------------------------------------------------------------------
(* main, lines 61-75, and generate_docstring, lines 22-39 *)

\* line 71: [ast.Expr(value=ast.Constant(value=docstring))] + node.body
PatchBody_Append(b, d) == b \o <<NewExpr(d)>>
PatchBody_Unchanged(b, d) == b
PatchBody_IfUndocumented(b, d) ==
    IF b # << >> /\ (b[1].t = "new" \/ src[b[1].id].kind = "Expr")
    THEN b ELSE <<NewExpr(d)>> \o b
PatchBody(b, d) == <<NewExpr(d)>> \o b

\* line 69: continue
AfterExcept_Abort == "aborted"
AfterExcept_Write == "open"
AfterExcept == "walk"

\* lines 71-74: the write follows the patch at once
AfterPatch_Deferred == "walk"
AfterPatch == "open"

\* line 23: generate_docstring has no try, an exception of generate_content
\* leaves it and reaches the except clause of line 67
AfterOracleError_Retry == "generate"
AfterOracleError == "except"

\* lines 61-64: the walk yields the next node; a function starts its handling
WalkNext ==
    /\ pc = "walk"
    /\ todo # << >>
    /\ LET node == Head(todo)
       IN  /\ todo' = Extend(Tail(todo), ChildNodes(body, node))
           /\ cur' = node.id
           /\ IF IsFunction(src, node)
              THEN /\ function_code' = SourceSegment(src, node.id)
                   /\ stdout' = Append(stdout, [msg |-> "Generating docstring to",
                                                name |-> NameOf(src, node.id),
                                                type |-> "none"])
                   /\ requests' = Append(requests, node.id)
                   /\ tries' = DefaultTries
                   /\ pc' = "generate"
              ELSE UNCHANGED <<function_code, stdout, requests, tries, pc>>
    /\ UNCHANGED <<run, file, persisted, src, body, raw_docstring, docstring,
                   updated_src, exc, hist, writes>>

\* line 61: the walk is exhausted, main returns
WalkEnd ==
    /\ pc = "walk"
    /\ todo = << >>
    /\ pc' = "done"
    /\ UNCHANGED <<run, file, persisted, src, body, todo, cur, function_code,
                   tries, raw_docstring, docstring, updated_src, exc, stdout,
                   hist, requests, writes>>

\* lines 22-24: while tries > 0, ask the model; line 39 once tries is used up
GenerateContent ==
    /\ pc = "generate"
    /\ IF tries > 0
       THEN \E answers \in BOOLEAN :
              IF answers
              THEN \E r \in Responses :
                     /\ raw_docstring' = r
                     /\ pc' = "extract"
                     /\ exc' = exc
                     /\ hist' = [hist EXCEPT ![cur].calls = @ + 1]
              ELSE /\ exc' = [type |-> "OracleError", name |-> ""]
                   /\ pc' = AfterOracleError
                   /\ raw_docstring' = raw_docstring
                   /\ hist' = [hist EXCEPT ![cur].calls = @ + 1, ![cur].err = TRUE]
       ELSE /\ exc' = IF Resolves("node")
                      THEN [type |-> "Exception", name |-> NameOf(src, cur)]
                      ELSE [type |-> "NameError", name |-> "node"]
            /\ pc' = "except"
            /\ UNCHANGED <<raw_docstring, hist>>
    /\ UNCHANGED <<run, file, persisted, src, body, todo, cur, function_code,
                   tries, docstring, updated_src, stdout, requests, writes>>

\* lines 26-38: look for the marker, return the docstring or count the try
Extract ==
    /\ pc = "extract"
    /\ IF HasMarker(raw_docstring)
       THEN /\ docstring' = FinalDocstring(raw_docstring)
            /\ pc' = "patch"
            /\ UNCHANGED <<tries, exc, hist>>
       ELSE /\ hist' = [hist EXCEPT ![cur].nomark = @ + 1]
            /\ docstring' = docstring
            /\ IF Resolves("node")
               THEN /\ tries' = tries - 1
                    /\ pc' = "generate"
                    /\ exc' = exc
               ELSE /\ exc' = [type |-> "NameError", name |-> "node"]
                    /\ pc' = "except"
                    /\ tries' = tries
    /\ UNCHANGED <<run, file, persisted, src, body, todo, cur, function_code,
                   raw_docstring, updated_src, stdout, requests, writes>>

\* lines 67-69: except Exception as e: print(...); continue
Except ==
    /\ pc = "except"
    /\ stdout' = Append(stdout, [msg |-> "Error generating docstring for",
                                 name |-> NameOf(src, cur),
                                 type |-> exc.type])
    /\ hist' = [hist EXCEPT ![cur].result = "skipped"]
    /\ exc' = NoExc
    /\ pc' = AfterExcept
    /\ UNCHANGED <<run, file, persisted, src, body, todo, cur, function_code,
                   tries, raw_docstring, docstring, updated_src, requests, writes>>

\* lines 71-73: prepend the new statement, unparse the whole tree
Patch_ByName ==
    /\ pc = "patch"
    /\ body' = [n \in DOMAIN body |->
                  IF NameOf(src, n) = NameOf(src, cur) /\ n \in FunctionsOf(src)
                  THEN PatchBody(body[n], docstring) ELSE body[n]]
    /\ updated_src' = Unparse(src, body')
    /\ hist' = [hist EXCEPT ![cur].result = "patched"]
    /\ pc' = AfterPatch
    /\ UNCHANGED <<run, file, persisted, src, todo, cur, function_code, tries,
                   raw_docstring, docstring, exc, stdout, requests, writes>>
Patch ==
    /\ pc = "patch"
    /\ body' = [body EXCEPT ![cur] = PatchBody(@, docstring)]
    /\ updated_src' = Unparse(src, body')
    /\ hist' = [hist EXCEPT ![cur].result = "patched"]
    /\ pc' = AfterPatch
    /\ UNCHANGED <<run, file, persisted, src, todo, cur, function_code, tries,
                   raw_docstring, docstring, exc, stdout, requests, writes>>

\* line 74: open(file_path, "w") truncates the file, or raises OSError
OpenWrite ==
    /\ pc = "open"
    /\ \E ok \in BOOLEAN :
         IF ok
         THEN /\ file' = NoText
              /\ pc' = "write"
              /\ exc' = exc
         ELSE /\ exc' = [type |-> "OSError", name |-> ""]
              /\ pc' = "aborted"
              /\ file' = file
    /\ UNCHANGED <<run, persisted, src, body, todo, cur, function_code, tries,
                   raw_docstring, docstring, updated_src, stdout, hist,
                   requests, writes>>

\* line 75: f.write(updated_src) and the close of the with block, or OSError
WriteClose ==
    /\ pc = "write"
    /\ \E ok \in BOOLEAN :
         IF ok
         THEN /\ file' = updated_src
              /\ persisted' = updated_src
              /\ writes' = writes + 1
              /\ pc' = "walk"
              /\ exc' = exc
         ELSE /\ exc' = [type |-> "OSError", name |-> ""]
              /\ pc' = "aborted"
              /\ UNCHANGED <<file, persisted, writes>>
    /\ UNCHANGED <<run, src, body, todo, cur, function_code, tries,
                   raw_docstring, docstring, updated_src, stdout, hist, requests>>

\* the tool is invoked again on the same file (lines 77-90, then 53-61)
Rerun ==
    /\ pc = "done"
    /\ run < MaxRuns
    /\ run' = run + 1
    /\ src' = file
    /\ body' = Parse(file)
    /\ todo' = <<NodeRef(0)>>
    /\ pc' = "walk"
    /\ cur' = 0
    /\ function_code' = NoText
    /\ tries' = DefaultTries
    /\ raw_docstring' = NoText
    /\ docstring' = NoText
    /\ updated_src' = NoText
    /\ exc' = NoExc
    /\ stdout' = << >>
    /\ hist' = [n \in 0..Len(file) |-> NoHist]
    /\ requests' = << >>
    /\ writes' = 0
    /\ UNCHANGED <<file, persisted>>

Next ==
    \/ WalkNext
    \/ WalkEnd
    \/ GenerateContent
    \/ Extract
    \/ Except
    \/ Patch
    \/ OpenWrite
    \/ WriteClose

Spec == Init /\ [][Next]_vars

\* the interpreter keeps running the process, and the oracle and the file
\* system answer every call
SpecFair == Init /\ [][Next]_vars /\ WF_vars(Next)

\* repeated invocations on the same file
InitRerun ==
    \E text \in ValidSources(MaxRerunLines) :
        /\ file = text
        /\ persisted = text
        /\ Start(text, 1)

NextRerun ==
    \/ Next
    \/ Rerun

SpecRerun == InitRerun /\ [][NextRerun]_vars

----------------------------------------------------------------------------
(* The start of the process: __main__ (lines 77-90) and main, lines 41-59 *)

\* every content the file at file_path may have, parseable or not
RECURSIVE AnyTexts(_)
AnyTexts(n) ==
    IF n = 0 THEN {<< >>}
    ELSE LET shorter == AnyTexts(n - 1)
         IN  shorter \cup {Append(t, l) : t \in {x \in shorter : Len(x) = n - 1},
                                          l \in UNION {SourceLines(i) : i \in 0..2}}

\* ast.parse(src) does not raise (line 56): the first statement is not
\* indented, every block opener is followed by its indented body
IsValidSource(text) ==
    /\ text # << >>
    /\ text[1].indent = 0
    /\ \A i \in 1..(Len(text) - 1) : MayFollow(SubSeq(text, 1, i), text[i + 1])
    /\ text[Len(text)].kind \notin BlockKinds

\* lines 46-51: except NotFound / InternalServerError: print, exit(1)
AfterModelError_Ignored == "read"
AfterModelError == "exit1"

InitPreflight ==
    /\ run = 1
    /\ file \in AnyTexts(MaxPreflightLines) \ {<< >>}
    /\ persisted = file
    /\ src = NoText
    /\ body = Parse(NoText)
    /\ todo = << >>
    /\ pc = "check_env"
    /\ cur = 0
    /\ function_code = NoText
    /\ tries = DefaultTries
    /\ raw_docstring = NoText
    /\ docstring = NoText
    /\ updated_src = NoText
    /\ exc = NoExc
    /\ stdout = << >>
    /\ hist = [n \in {0} |-> NoHist]
    /\ requests = << >>
    /\ writes = 0

\* lines 78, 9-12: check_env raises ValueError when GEMINI_API_KEY is not set
CheckEnv ==
    /\ pc = "check_env"
    /\ \E key \in BOOLEAN :
         IF key
         THEN /\ pc' = "check_path"
              /\ exc' = exc
         ELSE /\ exc' = [type |-> "ValueError", name |-> ""]
              /\ pc' = "raised"
    /\ UNCHANGED <<run, file, persisted, src, body, todo, cur, function_code,
                   tries, raw_docstring, docstring, updated_src, stdout, hist,
                   requests, writes>>

\* lines 80-88: the path must exist and end with .py
CheckPath ==
    /\ pc = "check_path"
    /\ \E ok \in BOOLEAN :
         IF ok
         THEN /\ pc' = "configure"
              /\ exc' = exc
         ELSE /\ exc' = [type |-> "FileNotFoundError", name |-> ""]
              /\ pc' = "raised"
    /\ UNCHANGED <<run, file, persisted, src, body, todo, cur, function_code,
                   tries, raw_docstring, docstring, updated_src, stdout, hist,
                   requests, writes>>

\* lines 42-51: genai.configure, genai.GenerativeModel(model_name)
MakeModel ==
    /\ pc = "configure"
    /\ \E outcome \in {"ok", "NotFound", "InternalServerError", "OtherError"} :
         IF outcome = "ok"
         THEN /\ pc' = "read"
              /\ UNCHANGED <<exc, stdout>>
         ELSE IF outcome = "OtherError"
         THEN /\ exc' = [type |-> outcome, name |-> ""]
              /\ pc' = "raised"
              /\ stdout' = stdout
         ELSE /\ exc' = [type |-> outcome, name |-> ""]
              /\ stdout' = Append(stdout, [msg |-> "Error:", name |-> "", type |-> outcome])
              /\ pc' = AfterModelError
    /\ UNCHANGED <<run, file, persisted, src, body, todo, cur, function_code,
                   tries, raw_docstring, docstring, updated_src, hist, requests,
                   writes>>

\* lines 53-61: read the file, parse it (exit(1) on any exception), start the walk
ReadParse ==
    /\ pc = "read"
    /\ src' = file
    /\ IF IsValidSource(file)
       THEN /\ body' = Parse(file)
            /\ todo' = <<NodeRef(0)>>
            /\ hist' = [n \in 0..Len(file) |-> NoHist]
            /\ pc' = "walk"
            /\ UNCHANGED <<exc, stdout>>
       ELSE /\ exc' = [type |-> "SyntaxError", name |-> ""]
            /\ stdout' = Append(stdout, [msg |-> "Error: Invalid syntax in file:",
                                         name |-> "", type |-> "SyntaxError"])
            /\ pc' = "exit1"
            /\ UNCHANGED <<body, todo, hist>>
    /\ UNCHANGED <<run, file, persisted, cur, function_code, tries,
                   raw_docstring, docstring, updated_src, requests, writes>>

NextPreflight ==
    \/ CheckEnv
    \/ CheckPath
    \/ MakeModel
    \/ ReadParse
    \/ Next

SpecPreflight == InitPreflight /\ [][NextPreflight]_vars

----------------------------------------------------------------------------
(* Extraction on its own: generate_docstring has just received a reply for  *)
(* the only function of a two-line file                                     *)

OneFunction == <<SourceLine(0, "FunctionDef", "f"), SourceLine(1, "Stmt", "")>>

InitExtract ==
    /\ run = 1
    /\ file = OneFunction
    /\ persisted = OneFunction
    /\ src = OneFunction
    /\ body = Parse(OneFunction)
    /\ todo = <<NodeRef(2)>>
    /\ pc = "extract"
    /\ cur = 1
    /\ function_code = SourceSegment(OneFunction, 1)
    /\ tries = DefaultTries
    /\ raw_docstring \in TextsUpTo(MaxRespLen)
    /\ docstring = NoText
    /\ updated_src = NoText
    /\ exc = NoExc
    /\ stdout = <<[msg |-> "Generating docstring to", name |-> "f", type |-> "none"]>>
    /\ hist = [n \in 0..2 |-> IF n = 1 THEN [NoHist EXCEPT !.calls = 1] ELSE NoHist]
    /\ requests = <<1>>
    /\ writes = 0

NextExtract == Extract

SpecExtract == InitExtract /\ [][NextExtract]_vars

----------------------------------------------------------------------------
(* Vocabulary of the properties *)

\* the function definitions of a text in source order, as a sequence
FunctionSeq(text) == Sorted(FunctionsOf(text))

\* number of consecutive string-expression statements at the head of the
\* block opened at line n of text, counted from line n + k + 1
RECURSIVE LeadingDocsFrom(_, _, _)
LeadingDocsFrom(text, n, k) ==
    IF /\ n + k + 1 <= Len(text)
       /\ text[n + k + 1].kind = "Expr"
       /\ text[n + k + 1].indent = text[n].indent + 1
    THEN LeadingDocsFrom(text, n, k + 1)
    ELSE k

LeadingDocs(text, n) == LeadingDocsFrom(text, n, 0)

\* the file holds a whole serialization of a tree with the functions of src
FileMatchesSrc == Len(FunctionSeq(file)) = Len(FunctionSeq(src))

\* documentation statements the file has at the head of the k-th function
\* beyond those the k-th function of src had
AddedDocs(k) ==
    LeadingDocs(file, FunctionSeq(file)[k].id) - LeadingDocs(src, FunctionSeq(src)[k].id)

\* statements created by this invocation in the body of node n
NewIn(n) == {i \in DOMAIN body[n] : body[n][i].t = "new"}

\* every reply of the oracle in this invocation carried the marker
OracleAlwaysSucceeded ==
    \A n \in DOMAIN hist : hist[n].nomark = 0 /\ ~hist[n].err

\* the handling of node n got only replies without the marker
OnlyMarkerless(n) ==
    /\ hist[n].calls > 0
    /\ hist[n].nomark = hist[n].calls
    /\ ~hist[n].err

\* the handling of node n succeeded on its first attempt
FirstAttemptSuccess(n) ==
    /\ hist[n].calls = 1
    /\ hist[n].nomark = 0
    /\ ~hist[n].err

\* no write is in progress and none has failed
Quiescent == pc \in {"walk", "generate", "extract", "except", "patch", "done"}

----------------------------------------------------------------------------
(* Properties *)

\* C1: a reply without the marker consumes one attempt and is followed by a
\* fresh generate call while attempts remain, so a function whose replies
\* never carry the marker is asked for exactly DefaultTries times before its
\* handling ends with an exception.
C1_MarkerlessRepliesUseAllAttempts ==
    (pc = "except" /\ OnlyMarkerless(cur)) =>
        /\ hist[cur].calls = DefaultTries
        /\ tries = 0

\* C2: when every reply for a function lacks the marker, the exception that
\* reaches main is the named failure "Failed to generate docstring after
\* multiple attempts for function <name>" carrying the function's name.
C2_NamedFailureReachesDriver ==
    (pc = "except" /\ OnlyMarkerless(cur)) =>
        exc = [type |-> "Exception", name |-> NameOf(src, cur)]

\* doc is what lies strictly between the first marker of raw and the next
\* marker after it, or everything after the first marker when there is none
IsExtraction(raw, doc) ==
    \E i \in 0..(Len(raw) - 3) :
        /\ OccursAt(raw, Marker, i)
        /\ \A k \in 0..(i - 1) : ~OccursAt(raw, Marker, k)
        /\ LET closes == {j \in (i + 3)..(Len(raw) - 3) : OccursAt(raw, Marker, j)}
           IN  IF closes = {}
               THEN raw = SubSeq(raw, 1, i) \o Marker \o doc
               ELSE \E j \in closes :
                      /\ \A k \in closes : j <= k
                      /\ raw = SubSeq(raw, 1, i) \o Marker \o doc \o Marker
                                 \o SubSeq(raw, j + 4, Len(raw))
                      /\ Len(doc) = j - (i + 3)

\* C3: for a reply that contains the marker, the returned text is the text
\* strictly between the first marker and the next one, or the whole rest of
\* the reply after the first marker when no second marker exists.
C3_ExtractedText ==
    pc = "patch" => IsExtraction(raw_docstring, docstring)

C3_Witness ==
    /\ pc = "patch"
    /\ raw_docstring = <<"a", Quote, Quote, Quote, "a", Quote, Quote, Quote, "a">>
    /\ docstring = <<"a">>

\* C4: after a complete run in which every reply carried the marker, every
\* function of the file has exactly one new statement, it is the first of
\* its body, and the file shows exactly one added documentation statement at
\* the head of every function and nothing else.
C4_EveryFunctionPatchedOnce ==
    (pc = "done" /\ OracleAlwaysSucceeded) =>
        /\ \A f \in FunctionsOf(src) :
              /\ hist[f].calls = 1
              /\ NewIn(f) = {1}
        /\ \A n \in DOMAIN body : n \notin FunctionsOf(src) => NewIn(n) = {}
        /\ FileMatchesSrc
        /\ \A k \in 1..Len(FunctionSeq(src)) : AddedDocs(k) = 1
        /\ Len(file) = Len(src) + Cardinality(FunctionsOf(src))

C4_Witness ==
    /\ pc = "done"
    /\ OracleAlwaysSucceeded
    /\ Cardinality(FunctionsOf(src)) >= 3
    /\ \E f \in FunctionsOf(src) : src[f].kind = "AsyncFunctionDef" /\ src[f].indent > 0
    /\ \E f \in FunctionsOf(src) : src[f].kind = "FunctionDef"

\* C5: a function whose replies all lack the marker does not abort the run;
\* at the end of the run the file has an added documentation statement for
\* every function that succeeded on its first attempt and none for a
\* function whose replies lacked the marker, wherever it comes in the order.
C5_FailedFunctionSkipped ==
    /\ pc = "aborted" => hist[cur].nomark = 0
    /\ pc = "done" =>
          /\ FileMatchesSrc
          /\ \A k \in 1..Len(FunctionSeq(src)) :
                LET f == FunctionSeq(src)[k].id
                IN  /\ OnlyMarkerless(f) => (AddedDocs(k) = 0 /\ NewIn(f) = {})
                    /\ FirstAttemptSuccess(f) => (AddedDocs(k) = 1 /\ NewIn(f) = {1})

C5_Witness ==
    /\ pc = "done"
    /\ Len(requests) = 3
    /\ FirstAttemptSuccess(requests[1])
    /\ OnlyMarkerless(requests[2])
    /\ FirstAttemptSuccess(requests[3])
    /\ Len(file) = Len(src) + 2

\* C6: whenever a write has completed and no later write has begun, the file
\* is the serialization of the tree, and what it has more than the text read
\* at the start is one documentation statement for each function patched so
\* far.
C6_PartialProgress ==
    (writes > 0 /\ Quiescent) =>
        /\ file = Unparse(src, body)
        /\ FileMatchesSrc
        /\ \A k \in 1..Len(FunctionSeq(src)) :
              AddedDocs(k) = IF hist[FunctionSeq(src)[k].id].result = "patched" THEN 1 ELSE 0
        /\ Len(file) = Len(src) + writes

C6_Witness ==
    /\ pc = "walk"
    /\ writes = 1
    /\ Len(requests) = 1
    /\ Cardinality(FunctionsOf(src)) >= 2
    /\ todo # << >>

\* C7: in every state of a run the file holds the original text or the most
\* recently completed serialization, never an empty or partial content.
C7_FileNeverPartial ==
    file = persisted

\* C8: when the tool is run again on a file in which every function was
\* documented by each earlier run and every reply carries the marker again,
\* every function ends with as many leading documentation statements as
\* there were runs (two after the second run): nothing is deduplicated.
C8_SecondRunDuplicates ==
    (/\ pc = "done"
     /\ run >= 2
     /\ OracleAlwaysSucceeded
     /\ \A f \in FunctionsOf(src) : LeadingDocs(src, f) = run - 1) =>
        /\ FileMatchesSrc
        /\ \A f \in FunctionsOf(file) : LeadingDocs(file, f) = run
        /\ \A f \in FunctionsOf(src) :
              /\ Len(body[f]) >= 2
              /\ body[f][1].t = "new"
              /\ KindOf(src, body[f][2]) = "Expr"

C8_Witness ==
    /\ pc = "done"
    /\ run = 2
    /\ Cardinality(FunctionsOf(file)) >= 2
    /\ \A f \in FunctionsOf(file) : LeadingDocs(file, f) = 2

\* C9 as stated: generation requests are issued in the order in which the
\* function definitions start in the source text.
C9_DocumentOrder ==
    \A i, j \in DOMAIN requests : i < j => requests[i] < requests[j]

\* C9 as amended: generation requests are issued in breadth-first order of
\* the tree, a function at a smaller depth before any function at a greater
\* depth and functions of equal depth in source order, each function once.
C9_BreadthFirstOrder ==
    /\ \A i, j \in DOMAIN requests :
          i < j =>
             \/ src[requests[i]].indent < src[requests[j]].indent
             \/ /\ src[requests[i]].indent = src[requests[j]].indent
                /\ requests[i] < requests[j]
    /\ pc = "done" => {requests[i] : i \in DOMAIN requests} = FunctionsOf(src)

C9_Witness ==
    /\ pc = "done"
    /\ \E i, j \in DOMAIN requests : i < j /\ requests[i] > requests[j]

\* C10 as stated: no exception raised while one function is handled ends
\* the run.
C10_NoStepAborts ==
    pc # "aborted"

\* C10 as amended: an exception raised by the oracle call or the extraction
\* is caught, logged with the function's name and the run goes on to the
\* remaining functions; only an exception raised while the file is written
\* ends the run.
C10_GenerationErrorsSkipped ==
    /\ pc = "aborted" => (exc.type = "OSError" /\ hist[cur].result = "patched")
    /\ \A n \in DOMAIN hist :
          hist[n].result = "skipped" =>
             /\ hist[n].nomark > 0 \/ hist[n].err
             /\ \E i \in DOMAIN stdout :
                   /\ stdout[i].msg = "Error generating docstring for"
                   /\ stdout[i].name = NameOf(src, n)
                   /\ stdout[i].type \in {"NameError", "Exception", "OracleError"}
    /\ pc = "done" =>
          \A f \in FunctionsOf(src) : hist[f].result \in {"patched", "skipped"}

C10_Witness ==
    /\ pc = "done"
    /\ Len(requests) = 3
    /\ hist[requests[1]].err
    /\ hist[requests[2]].nomark > 0
    /\ hist[requests[3]].result = "patched"

\* C11: once the oracle's generate call has failed for a function, the
\* failure has left generate_docstring: the failing call was the last one
\* made for that function, the attempts still available stay unused, and the
\* function is not patched.
C11_OracleFailurePropagates ==
    hist[cur].err =>
        /\ pc \in {"except", "walk", "done"}
        /\ hist[cur].calls = hist[cur].nomark + 1
        /\ tries = DefaultTries - hist[cur].nomark
        /\ tries > 0
        /\ hist[cur].result # "patched"
        /\ NewIn(cur) = {}

C11_Witness ==
    /\ pc = "except"
    /\ hist[cur].err
    /\ exc.type = "OracleError"
    /\ tries = DefaultTries

\* the process has not reached the loop of line 61
InPreflight == pc \in {"check_env", "check_path", "configure", "read", "exit1", "raised"}

C12_NothingMutated ==
    InPreflight =>
        /\ requests = << >>
        /\ \A n \in DOMAIN hist : hist[n].calls = 0 /\ hist[n].result = "none"
        /\ \A n \in DOMAIN body : NewIn(n) = {}
        /\ updated_src = NoText
        /\ writes = 0
        /\ file = persisted

C12_ExitCodes ==
    /\ exc.type \in {"NotFound", "InternalServerError", "SyntaxError"} => pc = "exit1"
    /\ exc.type \in {"ValueError", "FileNotFoundError"} => pc = "raised"
    /\ pc \in {"exit1", "raised"} =>
          exc.type \in {"NotFound", "InternalServerError", "SyntaxError",
                        "ValueError", "FileNotFoundError", "OtherError"}

C12_CredentialFirst ==
    /\ (exc.type # "ValueError" /\ exc'.type = "ValueError") => pc = "check_env"
    /\ (pc # "check_path" /\ pc' = "check_path") => pc = "check_env"
    /\ (pc # "read" /\ pc' = "read") => pc = "configure"
    /\ (pc # "walk" /\ pc' = "walk" /\ InPreflight) => (pc = "read" /\ IsValidSource(file))

\* C12: a missing credential, a bad path, a model that cannot be built and
\* an unparseable file each end the process before any generate call, patch
\* or write; the credential is checked before the path is looked at, and an
\* invalid model, an internal oracle error and a syntax error end with
\* exit(1).
C12_PreflightFailuresAbortBeforeMutation ==
    /\ [](C12_NothingMutated /\ C12_ExitCodes)
    /\ [][C12_CredentialFirst]_vars

C12_Witness ==
    /\ pc = "exit1"
    /\ exc.type = "SyntaxError"
    /\ FunctionsOf(file) # {}
    /\ file = persisted

\* nodes patched by this invocation
PatchedNodes == {n \in DOMAIN hist : hist[n].result = "patched"}

\* C13: the number of completed writes of the file equals the number of
\* functions patched: outside a write the two are equal, during the write
\* that follows a patch the patch is one ahead, a skipped function adds
\* no write, and a run in which every function fails leaves the file as it
\* was read.
C13_OneWritePerPatchedFunction ==
    /\ Quiescent => writes = Cardinality(PatchedNodes)
    /\ pc \in {"open", "write", "aborted"} =>
          (writes + 1 = Cardinality(PatchedNodes) /\ hist[cur].result = "patched")
    /\ PatchedNodes \subseteq FunctionsOf(src)
    /\ PatchedNodes = {} => (writes = 0 /\ file = src /\ updated_src = NoText)

C13_Witness ==
    /\ pc = "done"
    /\ Len(requests) = 3
    /\ writes = 1
    /\ Cardinality({n \in DOMAIN hist : hist[n].result = "skipped"}) = 2

\* C14: when the reply holds no docstring to extract (no marker),
\* generate_docstring returns the empty string to main instead of raising.
C14_ReturnsEmptyWhenNothingExtracted ==
    (hist[cur].nomark > 0 /\ ~hist[cur].err /\ pc # "extract") =>
        /\ exc.type = "none"
        /\ pc # "except"
        /\ docstring = NoText

\* positions of requests whose handling must be over: all but the last one
\* while a function is being handled, all of them between two functions
FinishedRequests ==
    IF pc \in {"walk", "done"} THEN DOMAIN requests
    ELSE {i \in DOMAIN requests : i < Len(requests)}

\* C15: one function is handled at a time, in the order request, extract,
\* patch, persist: when a request is issued every earlier function has been
\* skipped or patched and written, and within a function the extraction has
\* a reply, the patch has an extracted text and the write has a patched
\* tree.
C15_StrictlySequential ==
    /\ \A i \in FinishedRequests : hist[requests[i]].result \in {"patched", "skipped"}
    /\ Cardinality({i \in FinishedRequests : hist[requests[i]].result = "patched"}) = writes
    /\ \A i, j \in DOMAIN requests : i # j => requests[i] # requests[j]
    /\ pc \in {"generate", "extract", "except", "patch", "open", "write", "aborted"} =>
          (requests # << >> /\ cur = requests[Len(requests)])
    /\ pc = "generate" => hist[cur].result = "none"
    /\ pc = "extract" => (hist[cur].calls >= 1 /\ hist[cur].result = "none")
    /\ pc = "patch" =>
          /\ hist[cur].calls >= 1
          /\ hist[cur].result = "none"
          /\ HasMarker(raw_docstring)
          /\ NewIn(cur) = {}
    /\ pc \in {"open", "write"} =>
          /\ hist[cur].result = "patched"
          /\ NewIn(cur) = {1}
          /\ updated_src # NoText
          /\ file # updated_src

C15_Witness ==
    /\ pc = "generate"
    /\ Len(requests) = 2
    /\ hist[requests[1]].result = "patched"
    /\ writes = 1
    /\ file = updated_src

C16_PatchStep ==
    (pc = "patch" /\ pc' # "patch") =>
        /\ Len(body'[cur]) = Len(body[cur]) + 1
        /\ body'[cur][1].t = "new"
        /\ body'[cur][1].text = docstring
        /\ \A i \in DOMAIN body[cur] : body'[cur][i + 1] = body[cur][i]
        /\ \E k \in DOMAIN updated_src' :
              /\ updated_src'[k].kind = "Expr"
              /\ updated_src'[k].value = docstring

\* C16: the patch step puts one new statement carrying the extracted text
\* in front of the function's body and keeps every statement the body had,
\* in the same order, right after it: the body is one longer.
C16_PrependsOneStatement ==
    [][C16_PatchStep]_vars

C16_Witness ==
    /\ pc = "open"
    /\ Len(body[cur]) >= 3
    /\ body[cur][1] = NewExpr(docstring)
    /\ docstring = <<"d">>
    /\ body[cur][2].t = "node"
    /\ body[cur][3].t = "node"

C17_OnlyPatchedBodiesDiffer ==
    \A n \in DOMAIN body : hist[n].result # "patched" => body[n] = Parse(src)[n]

C17_OnlyOwnBodyChanges ==
    \A n \in DOMAIN body :
        body'[n] # body[n] => (pc = "patch" /\ n = cur /\ n \in FunctionsOf(src))

\* C17: a step changes the body of no node but the function being patched;
\* every other function and every statement outside functions keeps its
\* statement sequence, and a function that was skipped has the body the
\* parser gave it.
C17_PatchTouchesOnlyItsFunction ==
    /\ []C17_OnlyPatchedBodiesDiffer
    /\ [][C17_OnlyOwnBodyChanges]_vars

C17_Witness ==
    /\ pc = "done"
    /\ \E f, g \in FunctionsOf(src) :
          /\ hist[f].result = "skipped"
          /\ hist[g].result = "patched"
          /\ NameOf(src, f) = NameOf(src, g)
          /\ body[f] = Parse(src)[f]
          /\ body[g] # Parse(src)[g]

RECURSIVE TotalCalls(_)
TotalCalls(S) ==
    IF S = {} THEN 0
    ELSE LET n == CHOOSE x \in S : TRUE
         IN  hist[n].calls + TotalCalls(S \ {n})

C18_Budget ==
    /\ \A n \in DOMAIN hist :
          /\ hist[n].calls <= DefaultTries
          /\ n \notin FunctionsOf(src) => hist[n].calls = 0
    /\ TotalCalls(DOMAIN hist) <= DefaultTries * Cardinality(FunctionsOf(src))
    /\ writes <= Cardinality(FunctionsOf(src))
    /\ Len(requests) <= Cardinality(FunctionsOf(src))
    /\ pc = "done" => \A f \in FunctionsOf(src) : hist[f].calls >= 1

\* C18: every run comes to an end, and at every moment each function has
\* had at most DefaultTries generate calls, so at most DefaultTries per
\* function in total and at most one write per function; a run that reaches
\* the end of the walk has made at least one call for every function.
C18_TerminatesWithinBudget ==
    /\ <>(pc \in {"done", "aborted"})
    /\ []C18_Budget

C18_Witness ==
    /\ pc = "done"
    /\ Cardinality(FunctionsOf(src)) = 3
    /\ TotalCalls(DOMAIN hist) = 3
    /\ writes = 3

C19_RequestIsOriginalSegment ==
    pc \in {"generate", "extract", "except", "patch", "open", "write", "aborted"} =>
        /\ function_code # NoText
        /\ cur + Len(function_code) - 1 <= Len(src)
        /\ \A i \in DOMAIN function_code :
              /\ function_code[i] = src[cur + i - 1]
              /\ function_code[i].fmt = "orig"
              /\ function_code[i].kind # "Expr"
              /\ i > 1 => function_code[i].indent > src[cur].indent
        /\ cur + Len(function_code) <= Len(src) =>
              src[cur + Len(function_code)].indent <= src[cur].indent

\* C19: the text sent for a function is the run of lines of the text read
\* at the start that the function spans, from its first line to the last
\* line of its block: no statement added earlier in the run and no line of
\* the rewritten file is part of it, and the text read at the start is
\* never replaced.
C19_RequestFromOriginalText ==
    /\ []C19_RequestIsOriginalSegment
    /\ [][src' = src]_vars

C19_Witness ==
    /\ pc = "generate"
    /\ file # src
    /\ Len(function_code) >= 2
    /\ \E p \in PatchedNodes : p < cur /\ cur <= BlockEnd(src, p)

====
